---- MODULE Spec2Model ----
(***************************************************************************)
(* Model of the channel pipelines of felipegenef/functools.                 *)
(*                                                                         *)
(* A program is a constructor call (Streamify, CreateStream, ...), a chain  *)
(* of operator calls on the handle it returns (Pipe, Filter, ToStream,      *)
(* ToBufferedStream) and a terminal ToSlice.  Every constructor and every   *)
(* operator makes one channel and spawns one goroutine that writes to it    *)
(* and closes it; ToSlice ranges over the last channel on the caller's      *)
(* goroutine.  Process 0 is the constructor's goroutine, process k          *)
(* (1..NStages) the goroutine of the k-th operator, process NStages+1 the   *)
(* caller in ToSlice.  Channel k is written by process k-1 and read by      *)
(* process k.                                                               *)
(*                                                                         *)
(* An element in flight is a record [i, v]: v is the Go value, i the index  *)
(* in the source of the element it was made from (auxiliary: no code reads  *)
(* it).  taken[k] is the history of what process k received (auxiliary).    *)
(*                                                                         *)
(* Spec has the chains ended by ToSlice.  The other specifications add what *)
(* Spec leaves out: ForEachSpec the terminal ForEach, TerminalSpec either    *)
(* terminal under the scheduler's fairness, RecastSpec the pipelines of      *)
(* `any` and their Recast, LifecycleSpec the goroutines from the moment the  *)
(* go statement made them, IterSpec the eager iterable's Slice and Sort on   *)
(* Go's slice memory (backing arrays in heap, slice headers in iter).        *)
(* A send on a closed channel and a second close are run-time panics,        *)
(* recorded in faults.                                                       *)
(*                                                                         *)
(* bufferedStream is modelled from src/bufferedStreams.go, the version the  *)
(* tests compile against (Pipe takes func(InputType) any, the handle has a  *)
(* BufferSize field).  src/unnamed/part_000 is another copy of that file    *)
(* without the field, whose Pipe and Filter make unbuffered channels.       *)
(***************************************************************************)
EXTENDS Integers, Sequences, FiniteSets, TLC

\* ------------------------------------------------------------------ bounds
MaxLen == 3
MaxCap == 1
MaxStages == 2

VARIABLES
    items,      \* the source slice / the values the generator sends
    ctor,       \* the constructor call: [name, bufferSize]
    stages,     \* the operator calls of the chain, in call order
    chans,      \* chans[k]: [buf, cap, closed]
    procs,      \* procs[p]: [pc, held, idx]
    taken,      \* taken[k]: elements stage k has received (history)
    result,     \* ToSlice's local `result`: [isNil, items]
    terminal,   \* the terminal call of the chain: "ToSlice" or "ForEach"
    gen,        \* what the generator function does after its sends
    calls,      \* the invocations of ForEach's fn so far: [thread, arg] (history)
    invoked,    \* invoked[k]: how often stage k has called its fn (history)
    faults,     \* the run-time panics raised so far
    heap,       \* the backing arrays of the eager iterable's slices
    iter        \* the eager iterable's call: receiver, arguments, outcome

\* The variables of the eager iterable; no pipeline action touches them.
eager == <<heap, iter>>

vars == <<items, ctor, stages, chans, procs, taken, result,
          terminal, gen, calls, invoked, faults, eager>>

\* ------------------------------------------------------- values and slices
\* The code branches on a value only through the predicate given to Filter,
\* which reads its parity: one odd and one even value.
Values == {1, 2}

Elem(i, v) == [i |-> i, v |-> v]

\* A Go slice value: the nil slice, or a (possibly empty) non-nil slice.
NilSlice == [isNil |-> TRUE, items |-> <<>>]

MakeSlice(s) == [isNil |-> FALSE, items |-> s]

\* append(s, v): never nil.
GoAppend(s, v) == [isNil |-> FALSE, items |-> Append(s.items, v)]

\* A value of static type `any`: its dynamic type and the value of that type
\* (a string is stood for by a number that names it).
IntVal(n) == [type |-> "int", val |-> n]

StringVal(n) == [type |-> "string", val |-> n]

AnyValues == {IntVal(1), IntVal(2), StringVal(1)}

\* casted, ok := v.(T)
TypeAssert(v, T) == [ok |-> v.type = T, casted |-> v.val]

RECURSIVE SeqsUpTo(_, _)
SeqsUpTo(S, n) ==
    IF n = 0 THEN {<<>>}
    ELSE LET shorter == SeqsUpTo(S, n - 1)
         IN  shorter \cup {Append(s, x) : s \in {t \in shorter : Len(t) = n - 1}, x \in S}

RECURSIVE SeqMap(_, _)
SeqMap(F(_), s) == IF s = <<>> THEN <<>> ELSE <<F(Head(s))>> \o SeqMap(F, Tail(s))

\* ------------------------------------------------ caller-supplied functions
\* The functions the chains of the model pass to Pipe and to Filter (those of
\* the tests and the README).
FnNames == {"double"}

PredNames == {"even"}

ApplyFn(f, x) == IF f = "double" THEN x * 2 ELSE x

ApplyPred(p, x) == IF p = "even" THEN x % 2 = 0 ELSE TRUE

\* The functions of a caller that panic on some element: failsOnTwo is given
\* to Pipe and returns any other element as it is, panicsOnTwo is given to
\* Filter and keeps any other element.
FaultingFnNames == {"failsOnTwo"}

FaultingPredNames == {"panicsOnTwo"}

\* fn(x) panics.
Faults(f, x) == f \in FaultingFnNames \cup FaultingPredNames /\ x = 2

\* ------------------------------------------- the eager iterable (slices.go)
Slicefy(its) == MakeSlice(its)

\* var result []T; for _, v := range c.items { if fn(v) { result = append(result, v) } }
RECURSIVE FilterLoop(_, _, _)
FilterLoop(fn, rest, acc) ==
    IF rest = <<>> THEN acc
    ELSE FilterLoop(fn, Tail(rest),
                    IF ApplyPred(fn, Head(rest)) THEN GoAppend(acc, Head(rest)) ELSE acc)

IterableFilter(fn, c) == FilterLoop(fn, c.items, NilSlice)

\* var result []any; for _, v := range c.items { result = append(result, fn(v)) }
RECURSIVE MapLoop(_, _, _)
MapLoop(fn, rest, acc) ==
    IF rest = <<>> THEN acc
    ELSE MapLoop(fn, Tail(rest), GoAppend(acc, ApplyFn(fn, Head(rest))))

IterableMap(fn, c) == MapLoop(fn, c.items, NilSlice)

IterableToSlice(c) == c

\* ------------------------------------------------------------ constructors
UnbufferedCtors == {"Streamify", "CreateStream", "iterable.ToStream"}

BufferedCtors == {"StreamifyWithBuffer", "CreateBufferedStream", "iterable.ToBufferedStream"}

GeneratorCtors == {"CreateStream", "CreateBufferedStream"}

\* The handle a constructor returns and the capacity of the channel it makes.
Streamify == [kind |-> "streamable", BufferSize |-> 0, cap |-> 0]

CreateStream == [kind |-> "streamable", BufferSize |-> 0, cap |-> 0]

IterableToStream == [kind |-> "streamable", BufferSize |-> 0, cap |-> 0]

StreamifyWithBuffer(bufferSize) ==
    [kind |-> "bufferedStream", BufferSize |-> bufferSize, cap |-> bufferSize]

\* Mutant of CreateBufferedStream: the channel is made one slot too large.
CreateBufferedStreamOversized(bufferSize) ==
    [kind |-> "bufferedStream", BufferSize |-> bufferSize, cap |-> bufferSize + 1]

CreateBufferedStream(bufferSize) ==
    [kind |-> "bufferedStream", BufferSize |-> bufferSize, cap |-> bufferSize]

\* The struct literal names no BufferSize: the field keeps its zero value.
IterableToBufferedStream(bufferSize) ==
    [kind |-> "bufferedStream", BufferSize |-> 0, cap |-> bufferSize]

Construct(c, bufferSize) ==
    CASE c = "Streamify" -> Streamify
      [] c = "CreateStream" -> CreateStream
      [] c = "iterable.ToStream" -> IterableToStream
      [] c = "StreamifyWithBuffer" -> StreamifyWithBuffer(bufferSize)
      [] c = "CreateBufferedStream" -> CreateBufferedStream(bufferSize)
      [] c = "iterable.ToBufferedStream" -> IterableToBufferedStream(bufferSize)

\* --------------------------------------------------------------- operators
\* The handle each operator returns and the capacity of the channel it makes,
\* given the handle s it is called on.
\* Mutant of StreamPipe: the channel is made with room for one element.
StreamPipeBuffered(s) == [kind |-> "streamable", BufferSize |-> 0, cap |-> 1]

StreamPipe(s) == [kind |-> "streamable", BufferSize |-> 0, cap |-> 0]

StreamFilter(s) == [kind |-> "streamable", BufferSize |-> 0, cap |-> 0]

\* The struct literal names no BufferSize: the field keeps its zero value.
StreamToBufferedStream(s, bufferSize) ==
    [kind |-> "bufferedStream", BufferSize |-> 0, cap |-> bufferSize]

\* Mutant of BufferedPipe: the channel is made one slot too large.
BufferedPipeOversized(s) ==
    [kind |-> "bufferedStream", BufferSize |-> s.BufferSize, cap |-> s.BufferSize + 1]

BufferedPipe(s) ==
    [kind |-> "bufferedStream", BufferSize |-> s.BufferSize, cap |-> s.BufferSize]

\* Mutant of BufferedFilter: the channel is made one slot too large.
BufferedFilterOversized(s) ==
    [kind |-> "bufferedStream", BufferSize |-> s.BufferSize, cap |-> s.BufferSize + 1]

BufferedFilter(s) ==
    [kind |-> "bufferedStream", BufferSize |-> s.BufferSize, cap |-> s.BufferSize]

BufferedToStream(s) == [kind |-> "streamable", BufferSize |-> 0, cap |-> 0]

\* The calls a handle of each kind offers: [op, arg].
CallsOn(kind) ==
    {[op |-> "Pipe", arg |-> f] : f \in FnNames}
    \cup {[op |-> "Filter", arg |-> p] : p \in PredNames}
    \cup (IF kind = "streamable"
          THEN {[op |-> "ToBufferedStream", arg |-> c] : c \in 0..MaxCap}
          ELSE {[op |-> "ToStream", arg |-> 0]})

\* RecastStream[T](s), RecastBufferedStream[T](s).
RecastStream(s) == [kind |-> "streamable", BufferSize |-> 0, cap |-> 0]

RecastBufferedStream(s) ==
    [kind |-> "bufferedStream", BufferSize |-> s.BufferSize, cap |-> s.BufferSize]

Call(s, call) ==
    IF s.kind = "streamable"
    THEN CASE call.op = "Pipe" -> StreamPipe(s)
           [] call.op = "Filter" -> StreamFilter(s)
           [] call.op = "ToBufferedStream" -> StreamToBufferedStream(s, call.arg)
           [] call.op = "Recast" -> RecastStream(s)
    ELSE CASE call.op = "Pipe" -> BufferedPipe(s)
           [] call.op = "Filter" -> BufferedFilter(s)
           [] call.op = "ToStream" -> BufferedToStream(s)
           [] call.op = "Recast" -> RecastBufferedStream(s)

\* A stage: the call, the kind of handle it was called on, the handle it returned.
Stage(s, call) ==
    LET h == Call(s, call)
    IN  [op |-> call.op, arg |-> call.arg, on |-> s.kind,
         kind |-> h.kind, BufferSize |-> h.BufferSize, cap |-> h.cap]

\* All chains of at most n calls that type-check on a handle s.
RECURSIVE Chains(_, _)
Chains(s, n) ==
    IF n = 0 THEN {<<>>}
    ELSE {<<>>} \cup
         UNION {{<<Stage(s, call)>> \o rest : rest \in Chains(Call(s, call), n - 1)}
                : call \in CallsOn(s.kind)}

\* The types a chain recasts a pipeline of `any` to.
RecastTargets == {"int", "string"}

\* The chains on a handle s of element type `any` that begin with a Recast;
\* a pipeline recast to int goes on with the calls of an int pipeline.
RecastChains(s) ==
    UNION {{<<Stage(s, [op |-> "Recast", arg |-> T])>> \o rest :
               rest \in IF T = "int"
                        THEN Chains(Call(s, [op |-> "Recast", arg |-> T]), MaxStages - 1)
                        ELSE {<<>>}}
           : T \in RecastTargets}

\* ---------------------------------------------------------------- programs
Program(c, bufferSize, src, chain) ==
    [ctor |-> [name |-> c, bufferSize |-> bufferSize],
     handle |-> Construct(c, bufferSize), items |-> src, stages |-> chain]

Ctors == UnbufferedCtors \cup BufferedCtors

\* The capacities a constructor is called with.
CapsOf(c) == IF c \in BufferedCtors THEN 0..MaxCap ELSE {0}

Sources == SeqsUpTo(Values, MaxLen)

\* The programs of the repository's tests and of the specification's scenarios.
ScenarioPrograms ==
    { Program("Streamify", 0, <<1, 2, 3, 4>>,
              <<Stage(Streamify, [op |-> "Filter", arg |-> "even"]),
                Stage(Streamify, [op |-> "Pipe", arg |-> "double"])>>),
      Program("CreateBufferedStream", 2, <<1, 2, 3, 4, 5>>, <<>>),
      Program("CreateBufferedStream", 2, <<1, 2, 3, 4, 5>>,
              <<Stage(CreateBufferedStream(2), [op |-> "Pipe", arg |-> "identity"])>>) }

\* ------------------------------------------------------------ process state
NStages == Len(stages)

Consumer == NStages + 1

Idle == Elem(0, 0)

\* The eager iterable when the program makes no call on it.
NoCall == [op |-> "none"]

\* Mutant of RangeItems: the loop stops one item early.
RangeItemsStopsEarly(idx, src) ==
    IF idx < Len(src)
    THEN [pc |-> "send", held |-> Elem(idx, src[idx]), idx |-> idx]
    ELSE [pc |-> "close", held |-> Idle, idx |-> idx]

\* The goroutine of a from-slice constructor before its idx-th send:
\* defer close(ch); for _, v := range items { ch <- v }
RangeItems(idx, src) ==
    IF idx <= Len(src)
    THEN [pc |-> "send", held |-> Elem(idx, src[idx]), idx |-> idx]
    ELSE [pc |-> "close", held |-> Idle, idx |-> idx]

\* Mutant of RunGenerator: the goroutine returns without closing the channel.
RunGeneratorNeverCloses(idx, src) ==
    IF idx <= Len(src)
    THEN [pc |-> "send", held |-> Elem(idx, src[idx]), idx |-> idx]
    ELSE [pc |-> "done", held |-> Idle, idx |-> idx]

\* The goroutine of a from-generator constructor before its idx-th send:
\* defer close(ch); generator(ch), where the generator sends src and returns.
RunGenerator(idx, src) ==
    IF idx <= Len(src)
    THEN [pc |-> "send", held |-> Elem(idx, src[idx]), idx |-> idx]
    ELSE [pc |-> "close", held |-> Idle, idx |-> idx]

\* Mutant of RunGeneratorForever: the generator returns after its sends.
RunGeneratorForeverReturns(idx, src) == RunGenerator(idx, src)

\* generator(ch) where the generator, after sending src, never returns; the
\* model follows it up to that point (a generator that sends without end is
\* followed for its first Len(src) sends).
RunGeneratorForever(idx, src) ==
    IF idx <= Len(src)
    THEN [pc |-> "send", held |-> Elem(idx, src[idx]), idx |-> idx]
    ELSE [pc |-> "running", held |-> Idle, idx |-> idx]

\* generator(ch) where the generator, after sending src, panics.
RunGeneratorPanics(idx, src) ==
    IF idx <= Len(src)
    THEN [pc |-> "send", held |-> Elem(idx, src[idx]), idx |-> idx]
    ELSE [pc |-> "panicking", held |-> Idle, idx |-> idx]

Producer(c, idx, src) ==
    IF c \in GeneratorCtors
    THEN CASE gen = "returns" -> RunGenerator(idx, src)
           [] gen = "neverReturns" -> RunGeneratorForever(idx, src)
           [] gen = "panics" -> RunGeneratorPanics(idx, src)
    ELSE RangeItems(idx, src)

Receiving == [pc |-> "recv", held |-> Idle, idx |-> 0]

Sending(e) == [pc |-> "send", held |-> e, idx |-> 0]

\* Mutant of Panicking: the stage recovers and goes on with its range loop.
PanickingRecovered == Receiving

\* A stage's goroutine in which fn(v) has panicked: the panic is unwinding.
Panicking == [pc |-> "panicking", held |-> Idle, idx |-> 0]

\* Mutant of Closing: the stage's goroutine returns without closing its channel.
ClosingSkipsClose == [pc |-> "done", held |-> Idle, idx |-> 0]

\* A stage's goroutine after its range loop: the deferred close(out) is next.
Closing == [pc |-> "close", held |-> Idle, idx |-> 0]

\* Mutant of Finished: the goroutine goes back to its range loop.
FinishedLoopsAgain(p) == [pc |-> "recv", held |-> Idle, idx |-> p.idx]

Finished(p) == [pc |-> "done", held |-> Idle, idx |-> p.idx]

MakeChan(capacity) == [buf |-> <<>>, cap |-> capacity, closed |-> FALSE]

\* ch <- v when it can complete at once: a send on a closed channel panics.
ChanSend(ch, v) ==
    IF ch.closed THEN [ch |-> ch, panic |-> "send on closed channel"]
    ELSE [ch |-> [ch EXCEPT !.buf = Append(@, v)], panic |-> ""]

\* close(ch): closing a closed channel panics.
ChanClose(ch) ==
    IF ch.closed THEN [ch |-> ch, panic |-> "close of closed channel"]
    ELSE [ch |-> [ch EXCEPT !.closed = TRUE], panic |-> ""]

\* Mutant of RangeDone: the loop ends as soon as nothing is buffered.
RangeDoneWhenEmpty(ch) == ch.buf = <<>>

\* for v := range ch ends: ch is closed and nothing is left in it.
RangeDone(ch) == ch.closed /\ ch.buf = <<>>

\* Mutant of RangeNext: the element stays in the channel.
RangeNextPeeks(ch) == [ch |-> ch, v |-> Head(ch.buf)]

\* One receive of `for v := range ch` from the buffer of ch.
RangeNext(ch) == [ch |-> [ch EXCEPT !.buf = Tail(@)], v |-> Head(ch.buf)]

\* Mutant of DeferredClose: a panicking goroutine skips its deferred close.
DeferredCloseSkipped(ch) == [ch |-> ch, panic |-> ""]

\* The deferred close(ch) of a goroutine whose function is panicking: deferred
\* calls run while the panic unwinds.
DeferredClose(ch) == ChanClose(ch)

\* A goroutine of a program that has exited.
Exited == [pc |-> "exited", held |-> Idle, idx |-> 0]

\* A goroutine whose function panicked.
Panicked == [pc |-> "panic", held |-> Idle, idx |-> 0]

\* Mutant of AfterClose: the goroutine closes its channel a second time.
AfterCloseClosesAgain(p) == [pc |-> "close", held |-> Idle, idx |-> p.idx]

\* The goroutine after its deferred close: its function has returned.
AfterClose(p) == Finished(p)

\* A goroutine made by a go statement that has not run yet.
Unstarted == [pc |-> "start", held |-> Idle, idx |-> 0]

\* The goroutine of process p at the first statement of its function.
Scheduled(p, c, src) == IF p = 0 THEN Producer(c, 1, src) ELSE Receiving

\* The state after prog has built its chain and made its terminal call; the
\* goroutines are at their first statement if scheduled, else not yet run.
Load(prog, scheduled) ==
    /\ items = prog.items
    /\ ctor = prog.ctor
    /\ stages = prog.stages
    /\ chans = [k \in 1..(Len(prog.stages) + 1) |->
                  IF k = 1 THEN MakeChan(prog.handle.cap)
                  ELSE MakeChan(prog.stages[k - 1].cap)]
    /\ procs = [p \in 0..(Len(prog.stages) + 1) |->
                  IF scheduled \/ p = Len(prog.stages) + 1
                  THEN Scheduled(p, prog.ctor.name, prog.items)
                  ELSE Unstarted]
    /\ taken = [k \in 1..Len(prog.stages) |-> <<>>]
    /\ result = NilSlice
    /\ calls = <<>>
    /\ invoked = [k \in 1..Len(prog.stages) |-> 0]
    /\ faults = {}
    /\ heap = <<>>
    /\ iter = NoCall

Start(prog) == Load(prog, TRUE)

\* The state after a program that starts with one of the constructors in C has
\* built its chain and made its terminal call.
Built(C) ==
    \/ \E c \in C : \E n \in CapsOf(c) : \E src \in Sources :
           \E chain \in Chains(Construct(c, n), MaxStages) :
               Start(Program(c, n, src, chain))
    \/ \E prog \in {p \in ScenarioPrograms : p.ctor.name \in C} : Start(prog)

StartFrom(C) == terminal = "ToSlice" /\ gen = "returns" /\ Built(C)

Init == StartFrom(Ctors)

\* The programs whose source is a generator.
GeneratorInit == StartFrom(GeneratorCtors)

ForEachInit == terminal = "ForEach" /\ gen = "returns" /\ Built(Ctors)

Terminals == {"ToSlice", "ForEach"}

TerminalInit == terminal \in Terminals /\ gen = "returns" /\ Built(Ctors)

\* The programs whose goroutines have been made but have not run yet, on one
\* constructor of each pipeline kind (a stage's goroutine reads nothing of the
\* constructor but its channel).
LifecycleCtors == {"Streamify", "StreamifyWithBuffer"}

LifecycleInit ==
    /\ terminal = "ToSlice"
    /\ gen = "returns"
    /\ \E c \in LifecycleCtors : \E n \in CapsOf(c) : \E src \in Sources :
           \E chain \in Chains(Construct(c, n), MaxStages) :
               Load(Program(c, n, src, chain), FALSE)

\* What the generator passed to a from-generator constructor may do.
GensOf(c) == IF c \in GeneratorCtors THEN {"returns", "neverReturns"} ELSE {"returns"}

\* The chains of Pipe and Filter calls only, which make a pipeline of the kind
\* of the handle they are called on.
BoundedChains(s) ==
    {chain \in Chains(s, MaxStages) :
        \A j \in 1..Len(chain) : chain[j].op \in {"Pipe", "Filter"}}

\* The programs made of bounded stages, on a slice or on a generator that
\* returns or never does.
BoundedInit ==
    /\ terminal = "ToSlice"
    /\ \E c \in BufferedCtors : \E g \in GensOf(c) :
           /\ gen = g
           /\ \/ \E n \in CapsOf(c) : \E src \in Sources :
                     \E chain \in BoundedChains(Construct(c, n)) :
                         Start(Program(c, n, src, chain))
              \/ \E prog \in {p \in ScenarioPrograms : p.ctor.name = c} : Start(prog)

\* The programs whose generator panics after its sends.
GeneratorPanicInit ==
    /\ terminal = "ToSlice"
    /\ gen = "panics"
    /\ Built(GeneratorCtors)

\* Mutant of Absent: a terminal call ranges over the last channel after all.
AbsentDrains == Receiving

\* The caller of a chain that makes no terminal call on the last handle.
Absent == [pc |-> "absent", held |-> Idle, idx |-> 0]

\* The state after prog has built its chain, with its goroutines and callers
\* as in ps.
LoadWith(prog, ps) ==
    /\ items = prog.items
    /\ ctor = prog.ctor
    /\ stages = prog.stages
    /\ chans = [k \in 1..(Len(prog.stages) + 1) |->
                  IF k = 1 THEN MakeChan(prog.handle.cap)
                  ELSE MakeChan(prog.stages[k - 1].cap)]
    /\ procs = ps
    /\ taken = [k \in 1..Len(prog.stages) |-> <<>>]
    /\ result = NilSlice
    /\ calls = <<>>
    /\ invoked = [k \in 1..Len(prog.stages) |-> 0]
    /\ faults = {}
    /\ heap = <<>>
    /\ iter = NoCall

\* The state after prog has built its chain and made no terminal call.
Undrained(prog) ==
    LoadWith(prog, [p \in 0..(Len(prog.stages) + 1) |->
                      IF p = Len(prog.stages) + 1 THEN Absent
                      ELSE Scheduled(p, prog.ctor.name, prog.items)])

\* The state after prog has built its chain and two callers have each made a
\* terminal call on the last handle: ToSlice by caller NStages + 1 and ForEach
\* by caller NStages + 2.
Shared(prog) ==
    LoadWith(prog, [p \in 0..(Len(prog.stages) + 2) |->
                      Scheduled(p, prog.ctor.name, prog.items)])

SharedInit ==
    /\ terminal = "ToSlice"
    /\ gen = "returns"
    /\ \E c \in LifecycleCtors : \E n \in CapsOf(c) : \E src \in Sources :
           \E chain \in BoundedChains(Construct(c, n)) :
               Shared(Program(c, n, src, chain))

AbandonedCtors == {"Streamify", "CreateStream", "StreamifyWithBuffer"}

\* The programs that build a chain and never drain it.
AbandonedInit ==
    /\ terminal = "none"
    /\ gen = "returns"
    /\ \E c \in AbandonedCtors : \E n \in CapsOf(c) : \E src \in Sources :
           \E chain \in Chains(Construct(c, n), MaxStages) :
               Undrained(Program(c, n, src, chain))

\* The programs of CreateStream on a generator that returns or never does,
\* with either terminal call.
NonReturningInit ==
    /\ terminal \in Terminals
    /\ gen \in GensOf("CreateStream")
    /\ Built({"CreateStream"})

\* The programs in which a function given to Pipe or Filter panics on some
\* element: the chains with one or more of their Pipe and Filter calls given
\* such a function.
FaultingArg(op) == IF op = "Pipe" THEN "failsOnTwo" ELSE "panicsOnTwo"

WithFaults(chain, J) ==
    [j \in 1..Len(chain) |->
        IF j \in J THEN [chain[j] EXCEPT !.arg = FaultingArg(chain[j].op)] ELSE chain[j]]

FaultingChains(s) ==
    UNION {{WithFaults(chain, J) :
               J \in (SUBSET {j \in 1..Len(chain) : chain[j].op \in {"Pipe", "Filter"}})
                       \ {{}}}
           : chain \in Chains(s, MaxStages)}

FnPanicInit ==
    /\ terminal = "ToSlice"
    /\ gen = "returns"
    /\ \E c \in LifecycleCtors : \E n \in CapsOf(c) : \E src \in Sources :
           \E chain \in FaultingChains(Construct(c, n)) :
               Start(Program(c, n, src, chain))

\* The programs that build a pipeline of `any` over a mix of ints and strings
\* and recast it.
AnySources == SeqsUpTo(AnyValues, MaxLen)

RecastInit ==
    /\ terminal = "ToSlice"
    /\ gen = "returns"
    /\ \E c \in Ctors : \E n \in CapsOf(c) : \E src \in AnySources :
           \E chain \in RecastChains(Construct(c, n)) :
               Start(Program(c, n, src, chain))

\* ------------------------------------------------------------- loop bodies
\* What a stage's goroutine sends for a received element e: <<>> or <<e'>>.
\* Mutant of StreamPipeBody: the element is forwarded without applying fn.
StreamPipeForwardsInput(fn, e) == <<e>>

StreamPipeBody(fn, e) == <<Elem(e.i, ApplyFn(fn, e.v))>>

\* Mutant of StreamFilterBody: the test is inverted.
StreamFilterInverted(fn, e) == IF ApplyPred(fn, e.v) THEN <<>> ELSE <<e>>

StreamFilterBody(fn, e) == IF ApplyPred(fn, e.v) THEN <<e>> ELSE <<>>

StreamToBufferedStreamBody(e) == <<e>>

BufferedPipeBody(fn, e) == <<Elem(e.i, ApplyFn(fn, e.v))>>

\* Mutant of BufferedFilterBody: every element is forwarded.
BufferedFilterKeepsAll(fn, e) == <<e>>

BufferedFilterBody(fn, e) == IF ApplyPred(fn, e.v) THEN <<e>> ELSE <<>>

\* Mutant of BufferedToStreamBody: the relay drops the even values.
BufferedToStreamDropsEven(e) == IF e.v % 2 = 0 THEN <<>> ELSE <<e>>

BufferedToStreamBody(e) == <<e>>

\* if casted, ok := v.(StreamType); ok { out <- casted }
\* Mutant of RecastStreamBody: the value is forwarded whatever its type.
RecastStreamForwardsAll(T, e) == <<Elem(e.i, e.v.val)>>

RecastStreamBody(T, e) ==
    LET a == TypeAssert(e.v, T) IN IF a.ok THEN <<Elem(e.i, a.casted)>> ELSE <<>>

RecastBufferedStreamBody(T, e) ==
    LET a == TypeAssert(e.v, T) IN IF a.ok THEN <<Elem(e.i, a.casted)>> ELSE <<>>

\* The call of the caller's function in the loop body of stage st panics on e.
FnFaults(st, e) == st.op \in {"Pipe", "Filter"} /\ Faults(st.arg, e.v)

\* What the loop body of stage st sends for e: nothing if fn(v) panics.
Forward(st, e) ==
    IF FnFaults(st, e) THEN <<>>
    ELSE IF st.on = "streamable"
    THEN CASE st.op = "Pipe" -> StreamPipeBody(st.arg, e)
           [] st.op = "Filter" -> StreamFilterBody(st.arg, e)
           [] st.op = "ToBufferedStream" -> StreamToBufferedStreamBody(e)
           [] st.op = "Recast" -> RecastStreamBody(st.arg, e)
    ELSE CASE st.op = "Pipe" -> BufferedPipeBody(st.arg, e)
           [] st.op = "Filter" -> BufferedFilterBody(st.arg, e)
           [] st.op = "ToStream" -> BufferedToStreamBody(e)
           [] st.op = "Recast" -> RecastBufferedStreamBody(st.arg, e)

\* ToSlice's loop body: result = append(result, v).
\* Mutant of StreamToSliceBody: the element is put in front of result.
StreamToSlicePrepends(res, e) == [isNil |-> FALSE, items |-> <<e>> \o res.items]

StreamToSliceBody(res, e) == GoAppend(res, e)

BufferedToSliceBody(res, e) == GoAppend(res, e)

\* The kind of the handle ToSlice is called on.
FinalKind ==
    IF NStages = 0 THEN Construct(ctor.name, ctor.bufferSize).kind
    ELSE stages[NStages].kind

ToSliceBody(res, e) ==
    IF FinalKind = "streamable" THEN StreamToSliceBody(res, e)
    ELSE BufferedToSliceBody(res, e)

\* ForEach's loop body: fn(v), called by the goroutine that ranges.
\* Mutant of StreamForEachBody: fn is called twice for each element.
StreamForEachCallsTwice(log, thread, e) ==
    Append(Append(log, [thread |-> thread, arg |-> e]), [thread |-> thread, arg |-> e])

StreamForEachBody(log, thread, e) == Append(log, [thread |-> thread, arg |-> e])

BufferedForEachBody(log, thread, e) == Append(log, [thread |-> thread, arg |-> e])

ForEachBody(log, thread, e) ==
    IF FinalKind = "streamable" THEN StreamForEachBody(log, thread, e)
    ELSE BufferedForEachBody(log, thread, e)

\* How often a stage's loop body calls the caller's function for one received
\* element.
\* Mutant of BufferedPipeFnCalls: fn is evaluated twice for each element.
BufferedPipeCallsTwice(e) == 2

StreamPipeFnCalls(e) == 1

StreamFilterFnCalls(e) == 1

BufferedPipeFnCalls(e) == 1

BufferedFilterFnCalls(e) == 1

FnCalls(st, e) ==
    CASE st.op = "Pipe" ->
             IF st.on = "streamable" THEN StreamPipeFnCalls(e) ELSE BufferedPipeFnCalls(e)
      [] st.op = "Filter" ->
             IF st.on = "streamable" THEN StreamFilterFnCalls(e) ELSE BufferedFilterFnCalls(e)
      [] OTHER -> 0

\* The sender after a completed send: the producer goes on with the next
\* item, a stage goes back to its range loop.
AfterSend(p) ==
    IF p = 0 THEN Producer(ctor.name, procs[0].idx + 1, items) ELSE Receiving

\* The receiver after taking e from its channel.
AfterRecv(q, e) ==
    IF q = Consumer THEN procs[q]
    ELSE IF FnFaults(stages[q], e) THEN Panicking
    ELSE LET out == Forward(stages[q], e)
         IN  IF out = <<>> THEN Receiving ELSE Sending(out[1])

Deliver(q, e) ==
    /\ result' = IF q = Consumer /\ terminal = "ToSlice" THEN ToSliceBody(result, e)
                 ELSE result
    /\ calls' = IF q = Consumer /\ terminal = "ForEach" THEN ForEachBody(calls, q, e)
                ELSE calls
    /\ taken' = IF q = Consumer THEN taken ELSE [taken EXCEPT ![q] = Append(@, e)]
    /\ invoked' = IF q = Consumer THEN invoked
                  ELSE [invoked EXCEPT ![q] = @ + FnCalls(stages[q], e)]

\* ----------------------------------------------------------------- actions
\* ch <- v on a channel with room in its buffer, or on a closed channel.
Send(p) ==
    /\ procs[p].pc = "send"
    /\ chans[p + 1].closed \/ Len(chans[p + 1].buf) < chans[p + 1].cap
    /\ LET sent == ChanSend(chans[p + 1], procs[p].held)
       IN  /\ chans' = [chans EXCEPT ![p + 1] = sent.ch]
           /\ procs' = [procs EXCEPT ![p] = IF sent.panic = "" THEN AfterSend(p)
                                            ELSE Panicked]
           /\ faults' = IF sent.panic = "" THEN faults ELSE faults \cup {sent.panic}
    /\ UNCHANGED <<items, ctor, stages, taken, result, terminal, gen, calls, invoked, eager>>

\* ch <- v on an unbuffered channel: completes together with the receive.
Rendezvous(p) ==
    /\ procs[p].pc = "send"
    /\ procs[p + 1].pc = "recv"
    /\ ~chans[p + 1].closed
    /\ chans[p + 1].cap = 0
    /\ procs' = [procs EXCEPT ![p] = AfterSend(p),
                              ![p + 1] = AfterRecv(p + 1, procs[p].held)]
    /\ Deliver(p + 1, procs[p].held)
    /\ UNCHANGED <<items, ctor, stages, chans, terminal, gen, faults, eager>>

\* v := <-ch of a range loop, from the buffer.
Recv(q) ==
    /\ procs[q].pc = "recv"
    /\ chans[q].buf # <<>>
    /\ chans' = [chans EXCEPT ![q].buf = Tail(@)]
    /\ procs' = [procs EXCEPT ![q] = AfterRecv(q, Head(chans[q].buf))]
    /\ Deliver(q, Head(chans[q].buf))
    /\ UNCHANGED <<items, ctor, stages, terminal, gen, faults, eager>>

\* The range loop of a stage ends: its channel is closed and empty.
RangeEnd(q) ==
    /\ q # Consumer
    /\ procs[q].pc = "recv"
    /\ RangeDone(chans[q])
    /\ procs' = [procs EXCEPT ![q] = Closing]
    /\ UNCHANGED <<items, ctor, stages, chans, taken, result,
                   terminal, gen, calls, invoked, faults, eager>>

\* defer close(ch)
Close(p) ==
    /\ procs[p].pc = "close"
    /\ LET closing == ChanClose(chans[p + 1])
       IN  /\ chans' = [chans EXCEPT ![p + 1] = closing.ch]
           /\ procs' = [procs EXCEPT ![p] = IF closing.panic = "" THEN AfterClose(procs[p])
                                            ELSE Panicked]
           /\ faults' = IF closing.panic = "" THEN faults ELSE faults \cup {closing.panic}
    /\ UNCHANGED <<items, ctor, stages, taken, result, terminal, gen, calls, invoked, eager>>

\* ToSlice's range loop ends and ToSlice returns result.
ToSliceReturn ==
    /\ terminal = "ToSlice"
    /\ procs[Consumer].pc = "recv"
    /\ RangeDone(chans[Consumer])
    /\ procs' = [procs EXCEPT ![Consumer] = Finished(procs[Consumer])]
    /\ UNCHANGED <<items, ctor, stages, chans, taken, result,
                   terminal, gen, calls, invoked, faults, eager>>

\* ForEach's range loop ends and ForEach returns.
ForEachReturn ==
    /\ terminal = "ForEach"
    /\ procs[Consumer].pc = "recv"
    /\ RangeDone(chans[Consumer])
    /\ procs' = [procs EXCEPT ![Consumer] = Finished(procs[Consumer])]
    /\ UNCHANGED <<items, ctor, stages, chans, taken, result,
                   terminal, gen, calls, invoked, faults, eager>>

Next ==
    \/ \E p \in 0..NStages : Send(p)
    \/ \E p \in 0..NStages : Rendezvous(p)
    \/ \E q \in 1..Consumer : Recv(q)
    \/ \E q \in 1..NStages : RangeEnd(q)
    \/ \E p \in 0..NStages : Close(p)
    \/ ToSliceReturn

Spec == Init /\ [][Next]_vars

\* The Go scheduler runs a goroutine that can take a step.
FairSpec == Spec /\ WF_vars(Next)

GeneratorSpec == GeneratorInit /\ [][Next]_vars /\ WF_vars(Next)

RecastSpec == RecastInit /\ [][Next]_vars

BoundedSpec == BoundedInit /\ [][Next]_vars

\* The programs whose terminal call is ForEach.
ForEachNext ==
    \/ \E p \in 0..NStages : Send(p)
    \/ \E p \in 0..NStages : Rendezvous(p)
    \/ \E q \in 1..Consumer : Recv(q)
    \/ \E q \in 1..NStages : RangeEnd(q)
    \/ \E p \in 0..NStages : Close(p)
    \/ ForEachReturn

ForEachSpec == ForEachInit /\ [][ForEachNext]_vars

\* The scheduler runs a goroutine for the first time.
Schedule(p) ==
    /\ procs[p].pc = "start"
    /\ procs' = [procs EXCEPT ![p] = Scheduled(p, ctor.name, items)]
    /\ UNCHANGED <<items, ctor, stages, chans, taken, result,
                   terminal, gen, calls, invoked, faults, eager>>

LifecycleNext ==
    \/ \E p \in 0..NStages : Schedule(p)
    \/ \E p \in 0..NStages : Send(p)
    \/ \E p \in 0..NStages : Rendezvous(p)
    \/ \E q \in 1..Consumer : Recv(q)
    \/ \E q \in 1..NStages : RangeEnd(q)
    \/ \E p \in 0..NStages : Close(p)
    \/ ToSliceReturn

LifecycleSpec == LifecycleInit /\ [][LifecycleNext]_vars

\* The panic of a goroutine's function unwinds: its deferred close runs, and
\* nothing recovers the panic.
Unwind(p) ==
    /\ procs[p].pc = "panicking"
    /\ LET closing == DeferredClose(chans[p + 1])
       IN  /\ chans' = [chans EXCEPT ![p + 1] = closing.ch]
           /\ faults' = faults \cup {IF p = 0 THEN "generator panicked" ELSE "fn panicked"}
                                \cup (IF closing.panic = "" THEN {} ELSE {closing.panic})
    /\ procs' = [procs EXCEPT ![p] = [Panicked EXCEPT !.idx = procs[p].idx]]
    /\ UNCHANGED <<items, ctor, stages, taken, result, terminal, gen, calls, invoked, eager>>

\* The run time ends the program on a panic that no goroutine recovered.
Exit ==
    /\ faults # {}
    /\ \E p \in DOMAIN procs : procs[p].pc # "exited"
    /\ procs' = [p \in DOMAIN procs |-> [Exited EXCEPT !.idx = procs[p].idx]]
    /\ UNCHANGED <<items, ctor, stages, chans, taken, result,
                   terminal, gen, calls, invoked, faults, eager>>

PanicNext ==
    \/ \E p \in 0..NStages : Send(p)
    \/ \E p \in 0..NStages : Rendezvous(p)
    \/ \E q \in 1..Consumer : Recv(q)
    \/ \E q \in 1..NStages : RangeEnd(q)
    \/ \E p \in 0..NStages : Close(p)
    \/ ToSliceReturn
    \/ \E p \in 0..NStages : Unwind(p)
    \/ Exit

GeneratorPanicSpec == GeneratorPanicInit /\ [][PanicNext]_vars

FnPanicSpec == FnPanicInit /\ [][PanicNext]_vars

\* The programs with either terminal call, under the Go scheduler.
TerminalNext ==
    \/ \E p \in 0..NStages : Send(p)
    \/ \E p \in 0..NStages : Rendezvous(p)
    \/ \E q \in 1..Consumer : Recv(q)
    \/ \E q \in 1..NStages : RangeEnd(q)
    \/ \E p \in 0..NStages : Close(p)
    \/ ToSliceReturn
    \/ ForEachReturn

TerminalSpec == TerminalInit /\ [][TerminalNext]_vars /\ WF_vars(TerminalNext)

\* The goroutines of a chain nobody drains.
AbandonedNext ==
    \/ \E p \in 0..NStages : Send(p)
    \/ \E p \in 0..NStages : Rendezvous(p)
    \/ \E q \in 1..Consumer : Recv(q)
    \/ \E q \in 1..NStages : RangeEnd(q)
    \/ \E p \in 0..NStages : Close(p)

AbandonedSpec == AbandonedInit /\ [][AbandonedNext]_vars /\ WF_vars(AbandonedNext)

\* The second caller on the last handle, in ForEach.
Second == NStages + 2

\* The last worker's send on an unbuffered channel meets the second caller's
\* receive.
SecondRendezvous ==
    /\ procs[NStages].pc = "send"
    /\ procs[Second].pc = "recv"
    /\ ~chans[Consumer].closed
    /\ chans[Consumer].cap = 0
    /\ procs' = [procs EXCEPT ![NStages] = AfterSend(NStages)]
    /\ calls' = ForEachBody(calls, Second, procs[NStages].held)
    /\ UNCHANGED <<items, ctor, stages, chans, taken, result,
                   terminal, gen, invoked, faults, eager>>

\* The second caller's range loop takes an element from the buffer.
SecondRecv ==
    /\ procs[Second].pc = "recv"
    /\ chans[Consumer].buf # <<>>
    /\ LET got == RangeNext(chans[Consumer])
       IN  /\ chans' = [chans EXCEPT ![Consumer] = got.ch]
           /\ calls' = ForEachBody(calls, Second, got.v)
    /\ UNCHANGED <<items, ctor, stages, procs, taken, result,
                   terminal, gen, invoked, faults, eager>>

\* The second caller's range loop ends and its ForEach returns.
SecondReturn ==
    /\ procs[Second].pc = "recv"
    /\ RangeDone(chans[Consumer])
    /\ procs' = [procs EXCEPT ![Second] = Finished(procs[Second])]
    /\ UNCHANGED <<items, ctor, stages, chans, taken, result,
                   terminal, gen, calls, invoked, faults, eager>>

SharedNext ==
    \/ \E p \in 0..NStages : Send(p)
    \/ \E p \in 0..NStages : Rendezvous(p)
    \/ \E q \in 1..Consumer : Recv(q)
    \/ \E q \in 1..NStages : RangeEnd(q)
    \/ \E p \in 0..NStages : Close(p)
    \/ ToSliceReturn
    \/ SecondRendezvous
    \/ SecondRecv
    \/ SecondReturn

SharedSpec == SharedInit /\ [][SharedNext]_vars /\ WF_vars(SharedNext)

NonReturningSpec == NonReturningInit /\ [][TerminalNext]_vars /\ WF_vars(TerminalNext)

Returned == procs[Consumer].pc = "done"

\* Every goroutine of the chain has returned, and so has the terminal call.
AllDone == \A p \in 0..Consumer : procs[p].pc = "done"

\* ----------------------------------- the eager iterable on Go's slice memory
\* heap[a] is a backing array.  A slice is a header [isNil, arr, off, len, cap]:
\* its elements are heap[arr][off + 1 .. off + len], and it may grow in place
\* up to cap.
IterValues == {1, 2, 3}

NilHeader == [isNil |-> TRUE, arr |-> 0, off |-> 0, len |-> 0, cap |-> 0]

\* []InputType{}
EmptyLiteral == [isNil |-> FALSE, arr |-> 0, off |-> 0, len |-> 0, cap |-> 0]

Header(a, lo, hi, n) == [isNil |-> FALSE, arr |-> a, off |-> lo, len |-> hi - lo, cap |-> n - lo]

Contents(h, s) == [j \in 1..s.len |-> h[s.arr][s.off + j]]

\* s[lo:hi]: panics unless 0 <= lo <= hi <= cap(s).
GoSliceExpr(s, lo, hi) ==
    IF lo < 0 \/ hi > s.cap \/ lo > hi
    THEN [panic |-> "slice bounds out of range", s |-> NilHeader]
    ELSE [panic |-> "",
          s |-> [s EXCEPT !.off = @ + lo, !.len = hi - lo, !.cap = @ - lo]]

\* Mutant of IterableSlice: end is not compared with the length.
IterableSliceNoEndCheck(c, start, end) ==
    IF start < 0 \/ start > end
    THEN [panic |-> "", s |-> EmptyLiteral]
    ELSE GoSliceExpr(c, start, end)

IterableSlice(c, start, end) ==
    IF start < 0 \/ end > c.len \/ start > end
    THEN [panic |-> "", s |-> EmptyLiteral]
    ELSE GoSliceExpr(c, start, end)

\* The comparison functions passed to Sort: a < b, and a strict order on the
\* parity alone, under which 1 and 3 are equal.
LessNames == {"asc", "byParity"}

ApplyLess(fn, a, b) == IF fn = "asc" THEN a < b ELSE a % 2 < b % 2

\* sort.SliceStable: x goes behind every element it is not less than.
RECURSIVE InsertStable(_, _, _)
InsertStable(fn, sorted, x) ==
    IF sorted = <<>> THEN <<x>>
    ELSE IF ApplyLess(fn, x, sorted[Len(sorted)])
         THEN Append(InsertStable(fn, SubSeq(sorted, 1, Len(sorted) - 1), x),
                     sorted[Len(sorted)])
         ELSE Append(sorted, x)

RECURSIVE SliceStable(_, _, _)
SliceStable(fn, rest, acc) ==
    IF rest = <<>> THEN acc
    ELSE SliceStable(fn, Tail(rest), InsertStable(fn, acc, Head(rest)))

\* The spare capacity append may give to the array it allocates.
SpareCaps == {0, 1}

\* append([]InputType{}, c.items...): the empty literal itself when there is
\* nothing to append, else a new array holding a copy.
AppendToEmpty(h, c, spare) ==
    IF c.len = 0 THEN [heap |-> h, s |-> EmptyLiteral]
    ELSE [heap |-> Append(h, Contents(h, c) \o [j \in 1..spare |-> 0]),
          s |-> Header(Len(h) + 1, 0, c.len, c.len + spare)]

\* Writes vals over the elements of slice s.
Overwrite(h, s, vals) ==
    IF s.len = 0 THEN h
    ELSE [h EXCEPT ![s.arr] = [j \in 1..Len(@) |->
              IF j > s.off /\ j <= s.off + s.len THEN vals[j - s.off] ELSE @[j]]]

\* Mutant of IterableSort: the receiver's own slice is sorted.
IterableSortInPlace(h, c, fn, spare) ==
    [heap |-> Overwrite(h, c, SliceStable(fn, Contents(h, c), <<>>)), s |-> c]

IterableSort(h, c, fn, spare) ==
    LET copy == AppendToEmpty(h, c, spare)
    IN  [heap |-> Overwrite(copy.heap, copy.s,
                            SliceStable(fn, Contents(copy.heap, copy.s), <<>>)),
         s |-> copy.s]

\* append(s, vals...): writes vals behind the elements of s in the array of s
\* when its capacity allows, else in a new array holding a copy of s.
GoAppendSlice(h, s, vals, spare) ==
    IF s.len + Len(vals) <= s.cap
    THEN [heap |-> IF vals = <<>> THEN h
                   ELSE [h EXCEPT ![s.arr] = [j \in 1..Len(@) |->
                            IF j > s.off + s.len /\ j <= s.off + s.len + Len(vals)
                            THEN vals[j - s.off - s.len] ELSE @[j]]],
          s |-> [s EXCEPT !.len = @ + Len(vals)]]
    ELSE [heap |-> Append(h, Contents(h, s) \o vals \o [j \in 1..spare |-> 0]),
          s |-> Header(Len(h) + 1, 0, s.len + Len(vals), s.len + Len(vals) + spare)]

\* combinedItems := append(c.items, other...)
IterableConcat(h, c, other, spare) == GoAppendSlice(h, c, other, spare)

\* The iterable whose method is about to be called, and after the call.
Ready(c) == [op |-> "ready", recv |-> c]

Called(op, c, before, args, out, panic) ==
    [op |-> op, recv |-> c, before |-> before, args |-> args, out |-> out, panic |-> panic]

\* The pipeline variables of a program that builds no pipeline.
NoPipeline ==
    /\ items = <<>>
    /\ ctor = [name |-> "none", bufferSize |-> 0]
    /\ stages = <<>>
    /\ chans = <<>>
    /\ procs = <<>>
    /\ taken = <<>>
    /\ result = NilSlice
    /\ terminal = "none"
    /\ gen = "none"
    /\ calls = <<>>
    /\ invoked = <<>>
    /\ faults = {}

pipeline == <<items, ctor, stages, chans, procs, taken, result,
              terminal, gen, calls, invoked, faults>>

\* Slicefy(base[lo:hi]) for a slice base, or Slicefy(nil).
IterInit ==
    /\ NoPipeline
    /\ \/ \E base \in SeqsUpTo(IterValues, MaxLen) :
              \E lo \in 0..Len(base) : \E hi \in lo..Len(base) :
                  /\ heap = <<base>>
                  /\ iter = Ready(Header(1, lo, hi, Len(base)))
       \/ heap = <<>> /\ iter = Ready(NilHeader)

\* c.Slice(start, end)
IterSlice(start, end) ==
    /\ iter.op = "ready"
    /\ LET r == IterableSlice(iter.recv, start, end)
       IN  iter' = Called("Slice", iter.recv, Contents(heap, iter.recv),
                          <<start, end>>, r.s, r.panic)
    /\ UNCHANGED <<heap, pipeline>>

\* c.Sort(fn)
IterSort(fn, spare) ==
    /\ iter.op = "ready"
    /\ LET r == IterableSort(heap, iter.recv, fn, spare)
       IN  /\ heap' = r.heap
           /\ iter' = Called("Sort", iter.recv, Contents(heap, iter.recv),
                              <<fn>>, r.s, "")
    /\ UNCHANGED pipeline

\* c.Concat(other)
IterConcat(other, spare) ==
    /\ iter.op = "ready"
    /\ LET r == IterableConcat(heap, iter.recv, other, spare)
       IN  /\ heap' = r.heap
           /\ iter' = Called("Concat", iter.recv, Contents(heap, iter.recv),
                              <<other>>, r.s, "")
    /\ UNCHANGED pipeline

IterNext ==
    \/ \E start \in -1..(MaxLen + 1) : \E end \in -1..(MaxLen + 1) : IterSlice(start, end)
    \/ \E fn \in LessNames : \E spare \in SpareCaps : IterSort(fn, spare)
    \/ \E other \in SeqsUpTo(IterValues, MaxLen) : \E spare \in SpareCaps :
           IterConcat(other, spare)

IterSpec == IterInit /\ [][IterNext]_vars

\* ------------------------------------------------------------- observables
Vals(s) == SeqMap(LAMBDA e : e.v, s)

Idxs(s) == SeqMap(LAMBDA e : e.i, s)

StrictlyIncreasing(s) == \A j \in 1..(Len(s) - 1) : s[j] < s[j + 1]

IsPrefix(s, t) == Len(s) <= Len(t) /\ s = SubSeq(t, 1, Len(s))

\* The arguments ForEach's fn was called with, in call order.
Args(log) == SeqMap(LAMBDA c : c.arg, log)

\* What process q has received from channel q so far.
Received(q) ==
    IF q # Consumer THEN taken[q]
    ELSE IF terminal = "ToSlice" THEN result.items ELSE Args(calls)

\* The sends process p has completed on channel p+1 so far.
Sent(p) == Received(p + 1) \o chans[p + 1].buf

\* The number of sends the constructor's goroutine has completed.
ProducerSent == procs[0].idx - 1

\* What a stage sends for the elements of s, one after the other.
RECURSIVE ForwardAll(_, _)
ForwardAll(st, s) ==
    IF s = <<>> THEN <<>> ELSE Forward(st, Head(s)) \o ForwardAll(st, Tail(s))

\* The sends process p has completed, told from p's own progress.
Emitted(p) ==
    IF p = 0 THEN [j \in 1..ProducerSent |-> Elem(j, items[j])]
    ELSE LET out == ForwardAll(stages[p], taken[p])
         IN  IF procs[p].pc = "send" THEN SubSeq(out, 1, Len(out) - 1) ELSE out

OpsOfChain == {stages[k].op : k \in 1..NStages}

SomeBufferedChannel == \E k \in 1..Consumer : chans[k].cap > 0

\* ------------------------------------------------------------------ claims

\* C1: whatever the chain and the interleaving, the elements ToSlice has
\* collected are images of elements of the source, in the order of their
\* pre-images, each pre-image at most once.
C1_OrderPreserved ==
    /\ StrictlyIncreasing(Idxs(result.items))
    /\ \A j \in 1..Len(result.items) : result.items[j].i \in 1..Len(items)

C1_Witness ==
    /\ Returned
    /\ OpsOfChain = {"Pipe", "Filter"}
    /\ Len(result.items) >= 2
    /\ Len(result.items) < Len(items)

\* C2: when the last call of the chain is Pipe(f), ToSlice returns as many
\* elements as the Pipe stage received from the pipeline it was called on, and
\* the j-th is f of the j-th received.
C2_PipeMapsEach ==
    (Returned /\ NStages >= 1 /\ stages[NStages].op = "Pipe") =>
        /\ Len(result.items) = Len(taken[NStages])
        /\ \A j \in 1..Len(result.items) :
               result.items[j].v = ApplyFn(stages[NStages].arg, taken[NStages][j].v)

C2_Witness ==
    /\ Returned
    /\ NStages >= 1
    /\ stages[NStages].op = "Pipe"
    /\ Len(result.items) >= 2
    /\ Vals(result.items) # Vals(taken[NStages])

\* C3: when the last call of the chain is Filter(pred), ToSlice returns exactly
\* the elements the Filter stage received that satisfy pred, in the order
\* received.
C3_FilterKeepsMatching ==
    (Returned /\ NStages >= 1 /\ stages[NStages].op = "Filter") =>
        result.items =
            SelectSeq(taken[NStages], LAMBDA e : ApplyPred(stages[NStages].arg, e.v))

C3_Witness ==
    /\ Returned
    /\ NStages >= 1
    /\ stages[NStages].op = "Filter"
    /\ Len(result.items) >= 1
    /\ Len(result.items) < Len(taken[NStages])

\* C4: Filter(pred) then Pipe(f) on a pipeline drains to what the eager
\* iterable gives for Filter(pred) then Map(f) on the same slice; for
\* [1,2,3,4], even and double that is [4,8].
FilterThenPipe ==
    /\ NStages = 2
    /\ stages[1].op = "Filter"
    /\ stages[2].op = "Pipe"

C4_SameAsEager ==
    (Returned /\ FilterThenPipe) =>
        /\ Vals(result.items) =
               IterableToSlice(IterableMap(stages[2].arg,
                   IterableFilter(stages[1].arg, Slicefy(items)))).items
        /\ (items = <<1, 2, 3, 4>> /\ stages[1].arg = "even" /\ stages[2].arg = "double")
               => Vals(result.items) = <<4, 8>>

C4_Witness ==
    /\ Returned
    /\ FilterThenPipe
    /\ items = <<1, 2, 3, 4>>
    /\ Vals(result.items) = <<4, 8>>

\* C5: a pipeline built from a non-empty slice and drained at once: every
\* element is sent once and in order, the channel is closed only after the
\* last send, and ToSlice returns the slice.
FromSliceCtors ==
    {"Streamify", "StreamifyWithBuffer", "iterable.ToStream", "iterable.ToBufferedStream"}

C5_SliceRoundTrip ==
    (ctor.name \in FromSliceCtors /\ NStages = 0 /\ items # <<>>) =>
        /\ Vals(Sent(0)) = SubSeq(items, 1, ProducerSent)
        /\ chans[1].closed => ProducerSent = Len(items)
        /\ Returned => (~result.isNil /\ Vals(result.items) = items)

C5_Witness ==
    /\ ctor.name \in FromSliceCtors
    /\ NStages = 0
    /\ Len(items) = MaxLen
    /\ ctor.bufferSize > 0
    /\ Returned

\* C6: a generator that sends items and returns without closing: the origin
\* channel carries exactly items, in order; it is closed only after the
\* generator has returned; and under fair scheduling the drain ends with the
\* channel closed and every value delivered (also for a generator that sends
\* nothing).
FromGenerator == ctor.name \in GeneratorCtors

C6_GeneratorDrains ==
    /\ [](FromGenerator =>
            /\ Vals(Sent(0)) = SubSeq(items, 1, ProducerSent)
            /\ chans[1].closed => ProducerSent = Len(items))
    /\ (FromGenerator =>
            <>(Returned /\ chans[1].closed /\ Vals(Received(1)) = items))

C6_Witness ==
    /\ FromGenerator
    /\ NStages = 0
    /\ Len(items) = MaxLen
    /\ Returned
    /\ Vals(result.items) = items

\* C7: a relay (ToStream, ToBufferedStream) sends on exactly what it received,
\* once and in order, and closes its channel only after its upstream is closed
\* and emptied and everything is sent on; so ToBufferedStream(ToStream(P), C)
\* drains to what P delivered.
IsRelay(k) == stages[k].op \in {"ToStream", "ToBufferedStream"}

HeldBy(k) == IF procs[k].pc = "send" THEN <<procs[k].held>> ELSE <<>>

RoundTrip ==
    /\ NStages >= 2
    /\ stages[NStages - 1].op = "ToStream"
    /\ stages[NStages].op = "ToBufferedStream"

C7_ConversionPreserves ==
    /\ \A k \in 1..NStages : IsRelay(k) =>
           /\ taken[k] = Sent(k) \o HeldBy(k)
           /\ chans[k + 1].closed =>
                  (chans[k].closed /\ chans[k].buf = <<>> /\ Sent(k) = taken[k])
    /\ (Returned /\ RoundTrip) => result.items = taken[NStages - 1]

C7_Witness ==
    /\ Returned
    /\ RoundTrip
    /\ stages[NStages].arg > 0
    /\ Len(result.items) = MaxLen

\* C8: CreateBufferedStream with capacity C and a generator that sends more
\* than C values: while nothing has been received from the origin channel the
\* generator has completed at most C sends and still holds its next value on
\* an open channel, and after C sends its send cannot complete; no value is
\* dropped, and once drained every value has been delivered.
C8_Backpressure ==
    (ctor.name = "CreateBufferedStream" /\ Len(items) > ctor.bufferSize) =>
        /\ Received(1) = <<>> =>
               /\ ProducerSent <= ctor.bufferSize
               /\ procs[0].pc = "send"
               /\ procs[0].held = Elem(ProducerSent + 1, items[ProducerSent + 1])
               /\ ~chans[1].closed
               /\ ProducerSent = ctor.bufferSize => ~ENABLED Send(0)
        /\ Vals(Sent(0)) = SubSeq(items, 1, ProducerSent)
        /\ Returned => Vals(Received(1)) = items

C8_Witness ==
    /\ ctor.name = "CreateBufferedStream"
    /\ ctor.bufferSize >= 1
    /\ Len(items) > ctor.bufferSize
    /\ Received(1) = <<>>
    /\ ProducerSent = ctor.bufferSize
    /\ procs[0].pc = "send"

\* C9: a channel of a bounded pipeline never holds more elements than the
\* capacity supplied where the bounded pipeline was constructed or converted;
\* the generator 1..5 with capacity 2 drains to [1,2,3,4,5] with at most 2
\* elements in any channel.
ChannelKind(k) ==
    IF k = 1 THEN Construct(ctor.name, ctor.bufferSize).kind ELSE stages[k - 1].kind

\* The capacity supplied to the constructor or conversion that made the
\* bounded pipeline channel k belongs to.
RECURSIVE SuppliedCap(_)
SuppliedCap(k) ==
    IF k = 1 THEN ctor.bufferSize
    ELSE IF stages[k - 1].op = "ToBufferedStream" THEN stages[k - 1].arg
    ELSE SuppliedCap(k - 1)

OneToFiveCapTwo ==
    /\ ctor = [name |-> "CreateBufferedStream", bufferSize |-> 2]
    /\ items = <<1, 2, 3, 4, 5>>

C9_BufferBounded ==
    /\ \A k \in 1..Consumer :
           ChannelKind(k) = "bufferedStream" => Len(chans[k].buf) <= SuppliedCap(k)
    /\ OneToFiveCapTwo =>
           /\ \A k \in 1..Consumer : Len(chans[k].buf) <= 2
           /\ Returned => Vals(result.items) = <<1, 2, 3, 4, 5>>

C9_Witness ==
    /\ OneToFiveCapTwo
    /\ NStages = 1
    /\ Len(chans[1].buf) = 2
    /\ Len(chans[2].buf) = 2

\* C10 (as claimed): ToSlice on a pipeline that delivers nothing returns an
\* empty, non-nil slice.
C10_EmptyNotNil ==
    (Returned /\ result.items = <<>>) => ~result.isNil

\* The elements of s whose dynamic type is T, as values of type T, in order.
RECURSIVE OfType(_, _)
OfType(T, s) ==
    IF s = <<>> THEN <<>>
    ELSE (IF Head(s).v.type = T THEN <<Elem(Head(s).i, Head(s).v.val)>> ELSE <<>>)
         \o OfType(T, Tail(s))

RecastStages == {k \in 1..NStages : stages[k].op = "Recast"}

\* C11: a Recast stage has forwarded (or holds for its pending send) exactly
\* the received elements whose dynamic type is the target type, in the order
\* received; a mismatch raises no panic and does not stop the worker, which
\* leaves its loop only when its input is closed and empty; the program is
\* never stuck before ToSlice returns, and when it has returned the stage's
\* output channel is closed.
C11_RecastDropsMismatches ==
    /\ faults = {}
    /\ Returned \/ ENABLED Next
    /\ \A k \in RecastStages :
           /\ Sent(k) \o HeldBy(k) = OfType(stages[k].arg, taken[k])
           /\ procs[k].pc \in {"recv", "send", "close", "done"}
           /\ procs[k].pc \in {"close", "done"} =>
                  /\ chans[k].closed
                  /\ chans[k].buf = <<>>
                  /\ procs[k - 1].pc = "done"
           /\ Returned => chans[k + 1].closed

C11_Witness ==
    /\ Returned
    /\ NStages = 1
    /\ stages[1].op = "Recast"
    /\ stages[1].arg = "int"
    /\ items = <<IntVal(1), StringVal(1), IntVal(2)>>
    /\ Vals(result.items) = <<1, 2>>
    /\ chans[2].closed

\* C12: the invocations of ForEach's fn are, in order, the elements taken off
\* the last channel (those its writer has sent, less those still buffered),
\* one invocation each, all made by the goroutine that called ForEach; and
\* ForEach has returned only if that channel is closed and empty, its writer
\* done, and fn called for everything the writer sent.
C12_ForEachOncePerElement ==
    /\ terminal = "ForEach"
    /\ result = NilSlice
    /\ \A j \in 1..Len(calls) : calls[j].thread = Consumer
    /\ Args(calls) \o chans[Consumer].buf = Emitted(NStages)
    /\ Returned =>
           /\ chans[Consumer].closed
           /\ chans[Consumer].buf = <<>>
           /\ procs[NStages].pc = "done"
           /\ Args(calls) = Emitted(NStages)

C12_Witness ==
    /\ Returned
    /\ terminal = "ForEach"
    /\ ctor.name = "Streamify"
    /\ NStages = 0
    /\ items = <<1, 2, 1>>
    /\ Vals(Args(calls)) = <<1, 2, 1>>

GeneratorThenPipe == FromGenerator /\ NStages = 1 /\ stages[1].op = "Pipe"

\* C13: on a chain generator -> Pipe(fn) of any capacity, fn has been called
\* once for each element the Pipe stage has received, never more often than
\* the generator has sent; and when ToSlice has returned the generator has
\* sent every value, the stage has finished with none pending, and the number
\* of calls of fn is the number of values sent.
C13_FnOncePerElement ==
    GeneratorThenPipe =>
        /\ invoked[1] = Len(taken[1])
        /\ invoked[1] <= ProducerSent
        /\ Returned =>
               /\ ProducerSent = Len(items)
               /\ procs[1].pc = "done"
               /\ invoked[1] = ProducerSent
               /\ Len(result.items) = invoked[1]

C13_Witness ==
    /\ Returned
    /\ GeneratorThenPipe
    /\ OneToFiveCapTwo
    /\ invoked[1] = 5

\* The operators of a bounded pipeline that make a channel of its own kind.
InheritingOps == {"Pipe", "Filter", "Recast"}

\* C14: the channel made by a Pipe, Filter or Recast called on a bounded
\* pipeline has the capacity that was supplied to the constructor or
\* conversion which made that bounded pipeline.
C14_CapacityInherited ==
    \A k \in 1..NStages :
        (stages[k].on = "bufferedStream" /\ stages[k].op \in InheritingOps) =>
            chans[k + 1].cap = SuppliedCap(k)

\* C15: under the scheduler's fairness, on every chain over a finite source
\* ended by ToSlice or ForEach, no state in which some goroutine or the
\* terminal call has not returned is stuck, and eventually the terminal call
\* and every goroutine have returned.
C15_Terminates ==
    /\ [](AllDone \/ ENABLED TerminalNext)
    /\ <>AllDone

C15_Witness ==
    /\ AllDone
    /\ terminal = "ForEach"
    /\ NStages = 2
    /\ Len(calls) >= 1
    /\ SomeBufferedChannel

\* C16: Slice(start, end) raises no panic; with start < 0, end > length or
\* start > end it returns an empty sequence, otherwise the receiver's elements
\* at the indices start .. end-1, in order.
C16_SliceNeverFaults ==
    iter.op = "Slice" =>
        LET start == iter.args[1]
            end == iter.args[2]
            n == Len(iter.before)
        IN  /\ iter.panic = ""
            /\ Contents(heap, iter.out) =
                   IF start < 0 \/ end > n \/ start > end THEN <<>>
                   ELSE [j \in 1..(end - start) |-> iter.before[start + j]]

C16_Witness ==
    /\ iter.op = "Slice"
    /\ iter.before = <<1, 2, 3>>
    /\ iter.args = <<1, 3>>
    /\ Contents(heap, iter.out) = <<2, 3>>

\* a and b are equal under the comparison function: neither is less.
EqualUnder(fn, a, b) == ~ApplyLess(fn, a, b) /\ ~ApplyLess(fn, b, a)

Occurrences(v, s) == Len(SelectSeq(s, LAMBDA x : x = v))

\* C17: Sort(less) returns a sequence that holds each value as often as the
\* receiver does, in which no element is less than one before it, and in
\* which the elements equal under less stand in the receiver's order; it
\* shares no storage with the receiver, whose elements are as before.
C17_SortStablePermutation ==
    iter.op = "Sort" =>
        LET fn == iter.args[1]
            out == Contents(heap, iter.out)
        IN  /\ \A v \in IterValues : Occurrences(v, out) = Occurrences(v, iter.before)
            /\ \A j \in 1..Len(out) : \A i \in 1..(j - 1) : ~ApplyLess(fn, out[j], out[i])
            /\ \A v \in IterValues :
                   SelectSeq(out, LAMBDA x : EqualUnder(fn, x, v))
                       = SelectSeq(iter.before, LAMBDA x : EqualUnder(fn, x, v))
            /\ iter.out.len > 0 => iter.out.arr # iter.recv.arr
            /\ Contents(heap, iter.recv) = iter.before

C17_Witness ==
    /\ iter.op = "Sort"
    /\ iter.args = <<"byParity">>
    /\ iter.before = <<3, 2, 1>>
    /\ Contents(heap, iter.out) = <<2, 3, 1>>
    /\ Contents(heap, iter.recv) = <<3, 2, 1>>

\* The step closes channel k.
Closes(k) == ~chans[k].closed /\ chans'[k].closed

\* C18: no step raises a send-on-closed or close-of-closed panic; a channel
\* is closed by a step of the one goroutine that writes to it, taken at its
\* deferred close and ending that goroutine, while no other goroutine moves;
\* a closed channel stays closed, and nothing is sent on it afterwards.
C18_ClosedOnceByWriter ==
    /\ faults = {}
    /\ [][/\ faults' = {}
          /\ \A k \in 1..Consumer :
                 /\ Closes(k) =>
                        /\ procs[k - 1].pc = "close"
                        /\ procs'[k - 1].pc = "done"
                        /\ \A p \in 0..Consumer : p # k - 1 => procs'[p] = procs[p]
                 /\ chans[k].closed =>
                        /\ chans'[k].closed
                        /\ procs'[k - 1].pc = "done"
                        /\ Sent(k - 1)' = Sent(k - 1)]_vars

C18_Witness ==
    /\ Returned
    /\ NStages = 2
    /\ \A k \in 1..Consumer : chans[k].closed
    /\ Len(taken[1]) >= 2
    /\ Len(result.items) >= 1
    /\ faults = {}

\* The lifecycle state of the goroutine of stage k, as a rank: 0 Unstarted
\* (made, not yet run), 1 Running (in its range loop), 2 Draining (the loop
\* has ended, the deferred close is next), 3 Closed (it has closed its channel
\* and returned).
StageRank(k) ==
    CASE procs[k].pc = "start" -> 0
      [] procs[k].pc \in {"recv", "send"} -> 1
      [] procs[k].pc = "close" -> 2
      [] procs[k].pc = "done" -> 3
      [] OTHER -> 4

Advancing == {k \in 1..NStages : StageRank(k)' # StageRank(k)}

\* C19: every stage starts Unstarted; a step moves at most one stage, and
\* moves it to the next state of Unstarted, Running, Draining, Closed, never
\* back and never past one; a stage becomes Draining only in a state where its
\* input channel is closed and empty; it becomes Closed exactly in the step
\* that closes its own output channel.
C19_StageLifecycle ==
    /\ \A k \in 1..NStages : StageRank(k) = 0
    /\ [][/\ Cardinality(Advancing) <= 1
          /\ \A k \in 1..NStages :
                 /\ StageRank(k)' \in {StageRank(k), StageRank(k) + 1}
                 /\ StageRank(k)' <= 3
                 /\ (StageRank(k) = 1 /\ StageRank(k)' = 2) =>
                        chans[k].closed /\ chans[k].buf = <<>>
                 /\ (StageRank(k) = 2 /\ StageRank(k)' = 3) <=> Closes(k + 1)]_vars

C19_Witness ==
    /\ NStages = 2
    /\ StageRank(1) = 3
    /\ StageRank(2) = 2
    /\ Len(taken[2]) >= 2
    /\ chans[2].closed
    /\ ~chans[3].closed

\* C20: in every state where the terminal call (ToSlice or ForEach) has
\* returned, the constructor's goroutine and every stage's goroutine have
\* returned, every channel of the chain is closed, and none holds an element.
C20_ReturnsAfterAllClosed ==
    Returned =>
        /\ \A p \in 0..NStages : procs[p].pc = "done"
        /\ \A k \in 1..Consumer : chans[k].closed /\ chans[k].buf = <<>>
        /\ ProducerSent = Len(items)

C20_Witness ==
    /\ Returned
    /\ terminal = "ToSlice"
    /\ NStages = 2
    /\ ctor.name = "CreateStream"
    /\ Len(items) = MaxLen
    /\ \A k \in 1..Consumer : chans[k].closed

\* C21: on every channel of an unbounded pipeline, in every state, nothing is
\* stored in the channel and the sends its writer has completed are exactly
\* the receives its reader has completed.
C21_SynchronousHandoff ==
    \A k \in 1..Consumer :
        ChannelKind(k) = "streamable" =>
            /\ chans[k].buf = <<>>
            /\ Emitted(k - 1) = Received(k)

C21_Witness ==
    /\ NStages = 2
    /\ \A k \in 1..Consumer : ChannelKind(k) = "streamable"
    /\ OpsOfChain = {"Pipe"}
    /\ procs[0].pc = "send"
    /\ Len(Emitted(0)) = 2
    /\ Len(result.items) = 1

\* The elements stage k has received and not forwarded, nor holds to forward.
Dropped(k) == Len(taken[k]) - Len(ForwardAll(stages[k], taken[k]))

RECURSIVE DroppedUpTo(_)
DroppedUpTo(k) == IF k = 0 THEN 0 ELSE Dropped(k) + DroppedUpTo(k - 1)

\* The elements the source has sent that have neither reached the terminal
\* call nor been dropped by a stage.
InFlight == ProducerSent - Len(Received(Consumer)) - DroppedUpTo(NStages)

\* The stages of the chain, each one goroutine and the channel it writes: the
\* constructor's and one for each operator.
StageCount == NStages + 1

GeneratorPanicked == "generator panicked" \in faults

ProgramExited == \A p \in DOMAIN procs : procs[p].pc = "exited"

\* C23 (as stated): once the generator has panicked, the origin channel is
\* not closed.
C23_PanicSkipsClose == GeneratorPanicked => ~chans[1].closed

\* C23 (amended): once the generator's panic has left the constructor's
\* goroutine the origin channel is closed, by the deferred close, after every
\* value the generator sent; the panic is not recovered, so the program can
\* always still exit, and no state before the exit is stuck; a terminal call
\* that returns before the exit has seen the channel closed.
C23_PanicStillCloses ==
    /\ GeneratorPanicked =>
           /\ chans[1].closed
           /\ ProducerSent = Len(items)
           /\ ProgramExited \/ ENABLED Exit
    /\ ProgramExited \/ ENABLED PanicNext
    /\ Returned => chans[Consumer].closed /\ GeneratorPanicked

C23_Witness ==
    /\ GeneratorPanicked
    /\ ctor.name = "CreateStream"
    /\ NStages = 0
    /\ chans[1].closed
    /\ Returned
    /\ Vals(result.items) = <<1, 2>>

\* A function given to Pipe or Filter has panicked and the panic has left the
\* stage's goroutine.
FnPanicked == "fn panicked" \in faults

\* The last element stage q received is one its function panics on.
Faulted(q) == taken[q] # <<>> /\ FnFaults(stages[q], taken[q][Len(taken[q])])

\* C24 (as stated): once the function of a stage has panicked, the terminal
\* call does not return.
C24_FaultBlocksConsumer == FnPanicked => ~Returned

\* C24 (amended): a stage whose function panicked on an element never goes
\* back to its loop, has sent what it made of the elements before and nothing
\* for that element, and once the panic has left its goroutine its output
\* channel is closed by the deferred close; nothing made of the faulting
\* element reaches the terminal call; the panic is not recovered, so the
\* program can always still exit; a terminal call returns only on a closed
\* channel.
C24_FaultEndsProgram ==
    /\ \A q \in 1..NStages : Faulted(q) =>
           /\ procs[q].pc \in {"panicking", "panic", "exited"}
           /\ Sent(q) = ForwardAll(stages[q], taken[q])
           /\ procs[q].pc = "panic" => chans[q + 1].closed
           /\ \A j \in 1..Len(Received(Consumer)) :
                  Received(Consumer)[j].i # taken[q][Len(taken[q])].i
    /\ FnPanicked =>
           /\ \E q \in 1..NStages : Faulted(q) /\ chans[q + 1].closed
           /\ ProgramExited \/ ENABLED Exit
    /\ Returned => chans[Consumer].closed

C24_Witness ==
    /\ FnPanicked
    /\ Returned
    /\ ctor.name = "Streamify"
    /\ items = <<1, 2, 1>>
    /\ NStages = 1
    /\ stages[1].op = "Pipe"
    /\ Vals(result.items) = <<1>>

\* What the first k stages make of everything the source holds.
RECURSIVE ChainOutput(_)
ChainOutput(k) ==
    IF k = 0 THEN [j \in 1..Len(items) |-> Elem(j, items[j])]
    ELSE ForwardAll(stages[k], ChainOutput(k - 1))

NeverReturns == gen = "neverReturns"

\* C25: on a generator that never returns the origin channel is never closed,
\* the constructor's goroutine stays in the generator, no stage ends its loop
\* or closes its channel, the terminal call never returns and has received, in
\* order, a prefix of what the chain makes of the generator's sends; and
\* eventually it has received all of it.
C25_NeverReturningGenerator ==
    /\ [](NeverReturns =>
            /\ ~chans[1].closed
            /\ procs[0].pc \in {"send", "running"}
            /\ \A k \in 1..NStages :
                   procs[k].pc \in {"recv", "send"} /\ ~chans[k + 1].closed
            /\ ~Returned
            /\ IsPrefix(Received(Consumer), ChainOutput(NStages)))
    /\ (NeverReturns => <>[](/\ Received(Consumer) = ChainOutput(NStages)
                             /\ procs[Consumer].pc = "recv"))

C25_Witness ==
    /\ NeverReturns
    /\ ctor.name = "CreateStream"
    /\ terminal = "ForEach"
    /\ procs[0].pc = "running"
    /\ NStages = 2
    /\ Len(items) = MaxLen
    /\ Len(calls) >= 2
    /\ Received(Consumer) = ChainOutput(NStages)
    /\ procs[Consumer].pc = "recv"

\* Worker p is at a send and its channel has no free capacity.
BlockedOnSend(p) ==
    procs[p].pc = "send" /\ Len(chans[p + 1].buf) = chans[p + 1].cap

Terminated(p) == procs[p].pc = "done"

\* The last worker has more to send than its channel, which nobody drains,
\* can hold.
Overflows == Len(ChainOutput(NStages)) > chans[Consumer].cap

\* No stage of the chain drops an element.
NoDrops == \A k \in 1..NStages : stages[k].op \notin {"Filter", "Recast"}

\* The elements an undrained chain takes up: the capacity of every channel and
\* one element held by the worker of every stage.
RECURSIVE CapsUpTo(_)
CapsUpTo(k) == IF k = 0 THEN 0 ELSE chans[k].cap + CapsUpTo(k - 1)

TakenUp == CapsUpTo(Consumer) + NStages

\* C26 (as stated): in an undrained chain whose source has more elements than
\* the origin channel has capacity, the source worker never terminates.
C26_SourceNeverTerminates == Len(items) > chans[1].cap => ~Terminated(0)

\* C26 (amended): in an undrained chain the worker of the last channel, once
\* blocked on a send, stays blocked; if it has more to send than the channel
\* holds it never closes the channel or ends, and is eventually blocked for
\* good.  The source worker, in a chain that drops nothing, is blocked for
\* good and never closes the origin channel if the source has more elements
\* than the whole chain takes up, and terminates otherwise.
C26_UndrainedBlocks ==
    /\ [][BlockedOnSend(NStages) => BlockedOnSend(NStages)']_vars
    /\ [](Overflows =>
            /\ ~chans[Consumer].closed
            /\ procs[NStages].pc \in {"recv", "send"})
    /\ (Overflows => <>[]BlockedOnSend(NStages))
    /\ [](NoDrops /\ Len(items) > TakenUp =>
            /\ ~chans[1].closed
            /\ procs[0].pc = "send")
    /\ (NoDrops /\ Len(items) > TakenUp => <>[]BlockedOnSend(0))
    /\ (NoDrops /\ Len(items) <= TakenUp => <>Terminated(0))

C26_Witness ==
    /\ procs[Consumer].pc = "absent"
    /\ ctor.name = "Streamify"
    /\ items = <<1, 2, 1>>
    /\ NStages = 1
    /\ stages[1].op = "Pipe"
    /\ BlockedOnSend(0)
    /\ BlockedOnSend(1)
    /\ ProducerSent = 1

\* The shares of the two callers of a shared handle, and the elements of a
\* sequence as a set.
FirstShare == result.items

SecondShare == Args(calls)

Elems(s) == {s[j] : j \in 1..Len(s)}

BothReturned == procs[Consumer].pc = "done" /\ procs[Second].pc = "done"

\* C27: with two callers ranging over the last channel, every element sent on
\* it is in the channel or in exactly one caller's share, each share is in
\* source order, a caller returns only when the channel is closed and empty,
\* and eventually both have returned with everything the chain delivers
\* between them.
C27_SharedSplit ==
    /\ [](/\ Elems(FirstShare) \cup Elems(SecondShare) \cup Elems(chans[Consumer].buf)
               = Elems(Emitted(NStages))
          /\ Len(FirstShare) + Len(SecondShare) + Len(chans[Consumer].buf)
               = Len(Emitted(NStages))
          /\ Elems(Idxs(FirstShare)) \cap Elems(Idxs(SecondShare)) = {}
          /\ StrictlyIncreasing(Idxs(FirstShare))
          /\ StrictlyIncreasing(Idxs(SecondShare))
          /\ (procs[Consumer].pc = "done" \/ procs[Second].pc = "done")
                 => RangeDone(chans[Consumer]))
    /\ <>[](/\ BothReturned
            /\ Elems(FirstShare) \cup Elems(SecondShare) = Elems(ChainOutput(NStages)))

C27_Witness ==
    /\ BothReturned
    /\ ctor.name = "Streamify"
    /\ NStages = 1
    /\ stages[1].op = "Pipe"
    /\ Len(items) = MaxLen
    /\ Idxs(FirstShare) = <<1, 3>>
    /\ Idxs(SecondShare) = <<2>>

\* C28: a call of Concat(other) returns the receiver's elements followed by
\* other's, leaves the receiver's elements as they were, and changes no array
\* that existed before the call, so that every sequence sharing storage with
\* the receiver keeps its elements.
C28_ConcatLeavesOthers ==
    [][iter'.op = "Concat" =>
          /\ Contents(heap', iter'.out) = iter'.before \o iter'.args[1]
          /\ Contents(heap', iter'.recv) = iter'.before
          /\ \A a \in DOMAIN heap : heap'[a] = heap[a]]_vars
====
